---- MODULE Spec2Model ----
(***************************************************************************)
(* Model of emr_containers.py: the EMRContainers client, a thin wrapper    *)
(* around the boto3 "emr-containers" client.                               *)
(*                                                                         *)
(* A Python dict is a TLA+ record whose DOMAIN is the set of keys present; *)
(* d.get(k) is a test of k \in DOMAIN d.  Python's None is the string      *)
(* "None".  A Python str built by + is the sequence of its pieces.  A call *)
(* of a method of self.client is a request appended to the frame's         *)
(* requests; what the client answers (a response dict, or an exception) is *)
(* chosen by the environment and appended to the frame's responses.        *)
(*                                                                         *)
(* self[i] holds the attributes of instance i, frame[i] the invocation in  *)
(* progress on it, remote the lifecycle state of the job run the remote    *)
(* service started last ("NONE" before the first).  prior is a history     *)
(* variable: some instance has completed an invocation on its own.         *)
(***************************************************************************)
EXTENDS Integers, Sequences, FiniteSets, TLC

VARIABLES self, frame, remote, prior

vars == <<self, frame, remote, prior>>

(***************************************************************************)
(* Bounds of the model.                                                    *)
(***************************************************************************)
\* longest page of virtual clusters the remote service reports
MaxClusters == 2
\* longest page of job runs the remote service reports
MaxJobs == 2

(***************************************************************************)
(* Values the environment and the callers draw from.                       *)
(***************************************************************************)
Instances == {1, 2}

None == "None"

Regions == {"us-east-1", "eu-west-2"}

Namespaces == {"emr", "dev"}

\* states=[...] of list_job_runs, as the parameter example gives them
JobRunStates ==
    {"PENDING", "SUBMITTED", "RUNNING", "FAILED", "CANCELLED", "CANCEL_PENDING", "COMPLETED"}

\* the states that are not terminal: the wait loop goes on in them
ActiveStates == {"PENDING", "SUBMITTED", "RUNNING"}

\* the exceptions a call of the client raises
ClientErrors == {"ClientError"}

ResponseMetadata == [HTTPStatusCode |-> 200]

EmptyDict == [k \in {} |-> None]

\* a virtual cluster as list_virtual_clusters reports it
VirtualCluster(id, info) ==
    [id |-> id, state |-> "RUNNING",
     containerProvider |-> [type |-> "EKS", id |-> "eks"] @@ info]

EksInfo(ns) == [info |-> [eksInfo |-> [namespace |-> ns]]]

VirtualClusters ==
    { VirtualCluster("vc1", EksInfo("emr")),
      VirtualCluster("vc2", EksInfo("emr")),
      VirtualCluster("vc3", EksInfo("dev")),
      \* eksInfo without a namespace
      VirtualCluster("vc4", [info |-> [eksInfo |-> EmptyDict]]),
      \* info without eksInfo
      VirtualCluster("vc5", [info |-> EmptyDict]),
      \* containerProvider without info
      VirtualCluster("vc6", EmptyDict) }

Range(s) == { s[k] : k \in 1..Len(s) }

RECURSIVE Pages(_, _)
\* the pages over S of length at most n: sequences in which no element repeats
Pages(S, n) ==
    IF n = 0 THEN {<<>>}
    ELSE LET shorter == Pages(S, n - 1)
         IN shorter \cup
            UNION { { Append(s, x) : x \in S \ Range(s) } :
                    s \in { t \in shorter : Len(t) = n - 1 } }

NextTokens == {"t1"}

\* the response dicts of a listing call: the page under `key` or no such key,
\* with or without a continuation token
ListBodies(key, pages) ==
    LET meta == [ResponseMetadata |-> ResponseMetadata]
        items == {meta} \cup { meta @@ (key :> p) : p \in pages }
    IN items \cup { b @@ [nextToken |-> t] : b \in items, t \in NextTokens }

Failures == { [ok |-> FALSE, error |-> e] : e \in ClientErrors }

Answers(bodies) == Failures \cup { [ok |-> TRUE, body |-> b] : b \in bodies }

ListVirtualClustersResponses ==
    Answers(ListBodies("virtualClusters", Pages(VirtualClusters, MaxClusters)))

(***************************************************************************)
(* Python values: what a method returns or raises.                         *)
(***************************************************************************)
Return(type, value) == [kind |-> "return", type |-> type, value |-> value]

Raise(exception) == [kind |-> "raise", type |-> exception, value |-> None]

NoResult == [kind |-> "none", type |-> "none", value |-> None]

\* d.get(key) of a dict d, for a value of Python type `type`
Get(d, key, type) ==
    IF key \in DOMAIN d THEN Return(type, d[key]) ELSE Return("NoneType", None)

(***************************************************************************)
(* The frame of the invocation in progress on an instance.                 *)
(***************************************************************************)
Idle ==
    [pc |-> "idle", op |-> "none", args |-> EmptyDict,
     requests |-> <<>>, responses |-> <<>>, result |-> NoResult]

Invoke(op, args) == [Idle EXCEPT !.pc = "running", !.op = op, !.args = args]

\* self.client.<api>(**kwargs)
ClientCall(s, api, kwargs) == [client |-> s.client, api |-> api, kwargs |-> kwargs]

Send(f, request) ==
    [f EXCEPT !.pc = "calling", !.requests = Append(@, request)]

Receive(f, response) == [f EXCEPT !.responses = Append(@, response)]

Finish(f, result) == [f EXCEPT !.pc = "done", !.result = result]

\* EMRContainers(REGION)
EMRContainers(REGION) ==
    [client |-> [service |-> "emr-containers", region_name |-> REGION]]

(***************************************************************************)
(* list_clusters and get_cluster_by_ns.                                    *)
(***************************************************************************)
ProviderTypes == {"EKS"}

ClusterStateFilters == {<<"RUNNING">>, <<"RUNNING", "TERMINATED">>}

\* self.client.list_virtual_clusters(containerProviderType=..., states=...)
list_clusters_request(s, container_provider_type, states) ==
    ClientCall(s, "list_virtual_clusters",
               [containerProviderType |-> container_provider_type, states |-> states])

\* an exception of the call caught and an empty list returned in its place
list_clusters_result_swallow(response) ==
    IF response.ok THEN Get(response.body, "virtualClusters", "list")
    ELSE Return("list", <<>>)

\* return response.get("virtualClusters"); an exception of the call propagates
list_clusters_result(response) ==
    IF response.ok THEN Get(response.body, "virtualClusters", "list")
    ELSE Raise(response.error)

\* resp = self.list_clusters('EKS', ['RUNNING'])
get_cluster_by_ns_request(s) == list_clusters_request(s, "EKS", <<"RUNNING">>)

RECURSIVE Scan(_, _, _)
\* for vc in resp: from the k-th element on
Scan(resp, tenant_ns, k) ==
    IF k > Len(resp) THEN Return("NoneType", None)
    ELSE LET vc == resp[k]
             cp == vc.containerProvider
         IN \* .get('info') is None: None has no .get
            IF "info" \notin DOMAIN cp THEN Raise("AttributeError")
            \* .get('eksInfo') is None: None has no .get
            ELSE IF "eksInfo" \notin DOMAIN cp.info THEN Raise("AttributeError")
            ELSE IF /\ "namespace" \in DOMAIN cp.info.eksInfo
                    /\ tenant_ns = cp.info.eksInfo.namespace
                 THEN Return("str", vc.id)
                 ELSE Scan(resp, tenant_ns, k + 1)

\* the rest of get_cluster_by_ns once list_clusters has answered
get_cluster_by_ns_result(tenant_ns, response) ==
    LET resp == list_clusters_result(response)
    IN IF resp.kind = "raise" THEN resp
       \* for vc in None
       ELSE IF resp.type = "NoneType" THEN Raise("TypeError")
       ELSE Scan(resp.value, tenant_ns, 1)

(***************************************************************************)
(* Actions.  I is the set of instances the step is taken on: one instance, *)
(* or, in the side-by-side specification, both with the same input.  The   *)
(* program has one thread of control: no other instance is in a call.      *)
(***************************************************************************)
OthersIdle(I) == \A j \in Instances \ I : frame[j].pc = "idle"

CanCall(I) == I # {} /\ OthersIdle(I) /\ \A i \in I : frame[i].pc = "idle"

\* every instance of I waits for the answer to request number n + 1 of op
Awaits(I, op, n) ==
    /\ I # {}
    /\ OthersIdle(I)
    /\ \A i \in I : /\ frame[i].pc = "calling"
                     /\ frame[i].op = op
                     /\ Len(frame[i].responses) = n

list_clusters_call(I, container_provider_type, states) ==
    /\ CanCall(I)
    /\ frame' = [i \in Instances |->
          IF i \in I
          THEN Send(Invoke("list_clusters",
                           [container_provider_type |-> container_provider_type,
                            states |-> states]),
                    list_clusters_request(self[i], container_provider_type, states))
          ELSE frame[i]]
    /\ UNCHANGED <<self, remote, prior>>

\* a continuation token followed: the next page is asked for
list_clusters_return_paginated(I, response) ==
    /\ Awaits(I, "list_clusters", 0)
    /\ frame' = [i \in Instances |->
          IF i \in I
          THEN IF response.ok /\ "nextToken" \in DOMAIN response.body
               THEN Send(Receive(frame[i], response),
                         ClientCall(self[i], "list_virtual_clusters",
                                    [containerProviderType |->
                                       frame[i].args.container_provider_type,
                                     states |-> frame[i].args.states,
                                     nextToken |-> response.body.nextToken]))
               ELSE Finish(Receive(frame[i], response), list_clusters_result(response))
          ELSE frame[i]]
    /\ UNCHANGED <<self, remote, prior>>

list_clusters_return(I, response) ==
    /\ Awaits(I, "list_clusters", 0)
    /\ frame' = [i \in Instances |->
          IF i \in I
          THEN Finish(Receive(frame[i], response), list_clusters_result(response))
          ELSE frame[i]]
    /\ UNCHANGED <<self, remote, prior>>

list_clusters(I) ==
    \/ /\ CanCall(I)
       /\ \E t \in ProviderTypes, s \in ClusterStateFilters : list_clusters_call(I, t, s)
    \/ /\ Awaits(I, "list_clusters", 0)
       /\ \E r \in ListVirtualClustersResponses : list_clusters_return(I, r)

get_cluster_by_ns_call(I, tenant_ns) ==
    /\ CanCall(I)
    /\ frame' = [i \in Instances |->
          IF i \in I
          THEN Send(Invoke("get_cluster_by_ns", [tenant_ns |-> tenant_ns]),
                    get_cluster_by_ns_request(self[i]))
          ELSE frame[i]]
    /\ UNCHANGED <<self, remote, prior>>

get_cluster_by_ns_return(I, response) ==
    /\ Awaits(I, "get_cluster_by_ns", 0)
    /\ frame' = [i \in Instances |->
          IF i \in I
          THEN Finish(Receive(frame[i], response),
                      get_cluster_by_ns_result(frame[i].args.tenant_ns, response))
          ELSE frame[i]]
    /\ UNCHANGED <<self, remote, prior>>

get_cluster_by_ns(I) ==
    \/ /\ CanCall(I)
       /\ \E ns \in Namespaces : get_cluster_by_ns_call(I, ns)
    \/ /\ Awaits(I, "get_cluster_by_ns", 0)
       /\ \E r \in ListVirtualClustersResponses : get_cluster_by_ns_return(I, r)

(***************************************************************************)
(* describe_job and cancel_job.                                            *)
(***************************************************************************)
JobIds == {"j1", "j2"}

ClusterIds == {"vc1", "vc3"}

\* the job runs the service can report: in the state the job run is in
JobRuns ==
    { [id |-> j, virtualClusterId |-> "vc1", state |-> st] :
        j \in JobIds, st \in JobRunStates \cap {remote} }

\* what describe_job_run and cancel_job_run answer: a dict with the job run
\* under "jobRun", a dict naming only the job, or neither
JobRunResponses ==
    LET meta == [ResponseMetadata |-> ResponseMetadata]
    IN Answers({meta} \cup { meta @@ [jobRun |-> jr] : jr \in JobRuns }
                      \cup { meta @@ [id |-> j, virtualClusterId |-> "vc1"] : j \in JobIds })

\* self.client.describe_job_run(id=job_id, virtualClusterId=virtual_cluster_id)
describe_job_request(s, job_id, virtual_cluster_id) ==
    ClientCall(s, "describe_job_run",
               [id |-> job_id, virtualClusterId |-> virtual_cluster_id])

\* return response.get("jobRun")
describe_job_result(response) ==
    IF response.ok THEN Get(response.body, "jobRun", "dict")
    ELSE Raise(response.error)

\* self.client.cancel_job_run(id=job_id, irtualClusterId=virtual_cluster_id)
cancel_job_request(s, job_id, virtual_cluster_id) ==
    ClientCall(s, "cancel_job_run",
               [id |-> job_id, irtualClusterId |-> virtual_cluster_id])

\* return response.get("jobRun")
cancel_job_result(response) ==
    IF response.ok THEN Get(response.body, "jobRun", "dict")
    ELSE Raise(response.error)

describe_job_call(I, job_id, virtual_cluster_id) ==
    /\ CanCall(I)
    /\ frame' = [i \in Instances |->
          IF i \in I
          THEN Send(Invoke("describe_job",
                           [job_id |-> job_id, virtual_cluster_id |-> virtual_cluster_id]),
                    describe_job_request(self[i], job_id, virtual_cluster_id))
          ELSE frame[i]]
    /\ UNCHANGED <<self, remote, prior>>

describe_job_return(I, response) ==
    /\ Awaits(I, "describe_job", 0)
    /\ frame' = [i \in Instances |->
          IF i \in I
          THEN Finish(Receive(frame[i], response), describe_job_result(response))
          ELSE frame[i]]
    /\ UNCHANGED <<self, remote, prior>>

describe_job(I) ==
    \/ /\ CanCall(I)
       /\ \E j \in JobIds, c \in ClusterIds : describe_job_call(I, j, c)
    \/ /\ Awaits(I, "describe_job", 0)
       /\ \E r \in JobRunResponses : describe_job_return(I, r)

cancel_job_call(I, job_id, virtual_cluster_id) ==
    /\ CanCall(I)
    /\ frame' = [i \in Instances |->
          IF i \in I
          THEN Send(Invoke("cancel_job",
                           [job_id |-> job_id, virtual_cluster_id |-> virtual_cluster_id]),
                    cancel_job_request(self[i], job_id, virtual_cluster_id))
          ELSE frame[i]]
    /\ UNCHANGED <<self, remote, prior>>

cancel_job_return(I, response) ==
    /\ Awaits(I, "cancel_job", 0)
    /\ frame' = [i \in Instances |->
          IF i \in I
          THEN Finish(Receive(frame[i], response), cancel_job_result(response))
          ELSE frame[i]]
    \* the service, having accepted the request, starts cancelling the job run
    /\ remote' = IF response.ok /\ remote \in ActiveStates
                 THEN "CANCEL_PENDING" ELSE remote
    /\ UNCHANGED <<self, prior>>

cancel_job(I) ==
    \/ /\ CanCall(I)
       /\ \E j \in JobIds, c \in ClusterIds : cancel_job_call(I, j, c)
    \/ /\ Awaits(I, "cancel_job", 0)
       /\ \E r \in JobRunResponses : cancel_job_return(I, r)

(***************************************************************************)
(* list_jobs.                                                              *)
(***************************************************************************)
JobStateFilters == {<<"RUNNING", "COMPLETED", "FAILED">>, <<"PENDING">>}

CreatedBefore == {"2024-1-19T00:00:00Z"}

CreatedAfter == {"2023-12-31T00:00:00Z"}

JobRunSummaries ==
    { [id |-> "j1", state |-> "RUNNING"],
      [id |-> "j2", state |-> "COMPLETED"],
      [id |-> "j3", state |-> "FAILED"] }

ListJobRunsResponses == Answers(ListBodies("jobRuns", Pages(JobRunSummaries, MaxJobs)))

\* the creation-time window passed the wrong way round
list_jobs_request_swapped(s, virtual_cluster_id, created_before, created_after, states) ==
    ClientCall(s, "list_job_runs",
               [virtualClusterId |-> virtual_cluster_id,
                createdBefore |-> created_after,
                createdAfter |-> created_before,
                states |-> states])

\* self.client.list_job_runs(virtualClusterId=..., createdBefore=...,
\*                           createdAfter=..., states=...)
list_jobs_request(s, virtual_cluster_id, created_before, created_after, states) ==
    ClientCall(s, "list_job_runs",
               [virtualClusterId |-> virtual_cluster_id,
                createdBefore |-> created_before,
                createdAfter |-> created_after,
                states |-> states])

\* return response.get("jobRuns")
list_jobs_result(response) ==
    IF response.ok THEN Get(response.body, "jobRuns", "list")
    ELSE Raise(response.error)

\* virtual_cluster_id = self.get_cluster_by_ns(NAME_SPACE): the call goes out
list_jobs_call(I, NAME_SPACE, created_before, created_after, states) ==
    /\ CanCall(I)
    /\ frame' = [i \in Instances |->
          IF i \in I
          THEN Send(Invoke("list_jobs",
                           [NAME_SPACE |-> NAME_SPACE,
                            created_before |-> created_before,
                            created_after |-> created_after,
                            states |-> states]),
                    get_cluster_by_ns_request(self[i]))
          ELSE frame[i]]
    /\ UNCHANGED <<self, remote, prior>>

\* get_cluster_by_ns returns or raises; on a return, list_job_runs goes out
list_jobs_resolved(I, response) ==
    /\ Awaits(I, "list_jobs", 0)
    /\ frame' = [i \in Instances |->
          IF i \in I
          THEN LET a == frame[i].args
                   virtual_cluster_id == get_cluster_by_ns_result(a.NAME_SPACE, response)
                   f == Receive(frame[i], response)
               IN IF virtual_cluster_id.kind = "raise"
                  THEN Finish(f, virtual_cluster_id)
                  ELSE Send(f, list_jobs_request(self[i], virtual_cluster_id.value,
                                                 a.created_before, a.created_after,
                                                 a.states))
          ELSE frame[i]]
    /\ UNCHANGED <<self, remote, prior>>

list_jobs_return(I, response) ==
    /\ Awaits(I, "list_jobs", 1)
    /\ frame' = [i \in Instances |->
          IF i \in I
          THEN Finish(Receive(frame[i], response), list_jobs_result(response))
          ELSE frame[i]]
    /\ UNCHANGED <<self, remote, prior>>

list_jobs(I) ==
    \/ /\ CanCall(I)
       /\ \E ns \in Namespaces, b \in CreatedBefore, a \in CreatedAfter,
             s \in JobStateFilters : list_jobs_call(I, ns, b, a, s)
    \/ /\ Awaits(I, "list_jobs", 0)
       /\ \E r \in ListVirtualClustersResponses : list_jobs_resolved(I, r)
    \/ /\ Awaits(I, "list_jobs", 1)
       /\ \E r \in ListJobRunsResponses : list_jobs_return(I, r)

(***************************************************************************)
(* start_spark_job.                                                        *)
(***************************************************************************)
\* the parameter values of the docstring's example, for a namespace
ExampleParameters(ns) ==
    [NAME_SPACE |-> ns,
     EMR_EKS_EXECUTION_ARN |-> "arn",
     S3_BUCKET |-> "bucket_name",
     JOB_NAME |-> "emr-spark-python",
     LOG_GROUP |-> "/emr-on-eks-spark",
     LOG_STREAM_PREFIX |-> "spark_log_stream_prefix",
     DB_CONN_URL |-> "jdbc:mysql://host:3306/metadata",
     USER_NAME |-> "user",
     PASSWORD |-> "password",
     EntryPoint |-> "s3://S3Bucket/simplehive.py",
     JARS |-> "s3://S3Bucket/mysql-connector-java-8.0.30.jar",
     Arguments |-> <<>>,
     Driver_cores |-> "2",
     Executor_cores |-> "4",
     Executor_memory |-> "8G"]

\* the parameter values of testStartAndDesc, for a namespace
TestParameters(ns) ==
    [NAME_SPACE |-> ns,
     EMR_EKS_EXECUTION_ARN |-> "arn:aws:iam::role/JobExecRole",
     S3_BUCKET |-> "appcode",
     JOB_NAME |-> "hiveJdbcBoto3Test",
     LOG_GROUP |-> "/emr-on-eks",
     LOG_STREAM_PREFIX |-> "jdbc-hive",
     DB_CONN_URL |-> "jdbc:mysql://aurora:3306/HiveEMRonEKS",
     USER_NAME |-> "admin",
     PASSWORD |-> "secret",
     EntryPoint |-> "s3://appcode/app_code/job/hivejdbc1.py",
     JARS |-> "s3://appcode/mysql-connector-java-8.0.28.jar",
     Arguments |-> <<"s3://appcode">>,
     Driver_cores |-> "1",
     Executor_cores |-> "1",
     Executor_memory |-> "4G"]

StartParameters ==
    { ExampleParameters(ns) : ns \in Namespaces } \cup
    { TestParameters(ns) : ns \in Namespaces }

\* what start_job_run answers: a dict with or without the job run's id
StartJobRunResponses ==
    LET meta == [ResponseMetadata |-> ResponseMetadata]
    IN Answers({meta} \cup
               { meta @@ [id |-> j, name |-> n] :
                   j \in JobIds, n \in {"emr-spark-python"} })

\* the flags in another order: driver cores before executor cores
sparkSubmitParameters_reordered(a) ==
    <<"--jars ", a.JARS,
      " --conf spark.executor.memory=", a.Executor_memory,
      " --conf spark.driver.cores=", a.Driver_cores,
      " --conf spark.executor.cores=", a.Executor_cores>>

\* "--jars " + JARS + " --conf spark.executor.memory=" + Executor_memory + ...
sparkSubmitParameters(a) ==
    <<"--jars ", a.JARS,
      " --conf spark.executor.memory=", a.Executor_memory,
      " --conf spark.executor.cores=", a.Executor_cores,
      " --conf spark.driver.cores=", a.Driver_cores>>

jobDriver(a) ==
    [sparkSubmitJobDriver |->
       [entryPoint |-> a.EntryPoint,
        entryPointArguments |-> a.Arguments,
        sparkSubmitParameters |-> sparkSubmitParameters(a)]]

configurationOverrides(a) ==
    [monitoringConfiguration |->
       [cloudWatchMonitoringConfiguration |->
          [logGroupName |-> a.LOG_GROUP,
           logStreamNamePrefix |-> a.LOG_STREAM_PREFIX],
        s3MonitoringConfiguration |-> [logUri |-> <<"s3://", a.S3_BUCKET>>]],
     applicationConfiguration |->
       << [classification |-> "emr-containers-defaults",
           properties |-> ("job-start-timeout" :> "600")],
          [classification |-> "spark-defaults",
           properties |->
             ("spark.dynamicAllocation.enabled" :> "false") @@
             ("spark.kubernetes.executor.deleteOnTermination" :> "true")],
          [classification |-> "spark-hive-site",
           properties |->
             ("hive.metastore.client.factory.class" :>
                "org.apache.hadoop.hive.ql.metadata.SessionHiveMetaStoreClientFactory") @@
             ("javax.jdo.option.ConnectionDriverName" :> "com.mysql.cj.jdbc.Driver") @@
             ("javax.jdo.option.ConnectionUserName" :> a.USER_NAME) @@
             ("javax.jdo.option.ConnectionPassword" :> a.PASSWORD) @@
             ("javax.jdo.option.ConnectionURL" :> a.DB_CONN_URL)],
          [classification |-> "spark-env",
           properties |-> EmptyDict,
           configurations |->
             << [classification |-> "export",
                 properties |->
                   ("_JAVA_OPTIONS" :>
                      "\"$_JAVA_OPTIONS -Dhttp.proxyHost=applicationwebproxy.nomura.com -Dhttp.proxyPort=80 -Dhttp.nonProxyHosts=s3.amazonaws.com\"")] >>] >>]

\* self.client.start_job_run(name=JOB_NAME, virtualClusterId=EMR_EKS_CLUSTER_ID, ...)
start_spark_job_request(s, a, EMR_EKS_CLUSTER_ID) ==
    ClientCall(s, "start_job_run",
               [name |-> a.JOB_NAME,
                virtualClusterId |-> EMR_EKS_CLUSTER_ID,
                executionRoleArn |-> a.EMR_EKS_EXECUTION_ARN,
                releaseLabel |-> "emr-6.15.0-20231109",
                jobDriver |-> jobDriver(a),
                configurationOverrides |-> configurationOverrides(a)])

\* job_id = response.get("id"); return job_id
start_spark_job_result(response) ==
    IF response.ok THEN Get(response.body, "id", "str")
    ELSE Raise(response.error)

\* EMR_EKS_CLUSTER_ID = self.get_cluster_by_ns(NAME_SPACE): the call goes out
start_spark_job_call(I, a) ==
    /\ CanCall(I)
    /\ frame' = [i \in Instances |->
          IF i \in I
          THEN Send(Invoke("start_spark_job", a), get_cluster_by_ns_request(self[i]))
          ELSE frame[i]]
    /\ UNCHANGED <<self, remote, prior>>

\* get_cluster_by_ns returns or raises; on a return, start_job_run goes out
start_spark_job_resolved(I, response) ==
    /\ Awaits(I, "start_spark_job", 0)
    /\ frame' = [i \in Instances |->
          IF i \in I
          THEN LET a == frame[i].args
                   EMR_EKS_CLUSTER_ID == get_cluster_by_ns_result(a.NAME_SPACE, response)
                   f == Receive(frame[i], response)
               IN IF EMR_EKS_CLUSTER_ID.kind = "raise"
                  THEN Finish(f, EMR_EKS_CLUSTER_ID)
                  ELSE Send(f, start_spark_job_request(self[i], a,
                                                       EMR_EKS_CLUSTER_ID.value))
          ELSE frame[i]]
    /\ UNCHANGED <<self, remote, prior>>

\* the wait loop of the method's dead code, alive: once start_job_run has
\* answered, the job run is described until it is in a terminal state
start_spark_job_return_wait(I, response) ==
    /\ Awaits(I, "start_spark_job", 1)
    /\ frame' = [i \in Instances |->
          IF i \in I
          THEN LET f == Receive(frame[i], response)
                   job_id == start_spark_job_result(response)
               IN IF job_id.kind = "return" /\ job_id.type = "str"
                  THEN Send(f, describe_job_request(
                                 self[i], job_id.value,
                                 f.requests[2].kwargs.virtualClusterId))
                  ELSE Finish(f, job_id)
          ELSE frame[i]]
    /\ remote' = IF response.ok /\ "id" \in DOMAIN response.body
                 THEN "PENDING" ELSE remote
    /\ UNCHANGED <<self, prior>>

start_spark_job_return(I, response) ==
    /\ Awaits(I, "start_spark_job", 1)
    /\ frame' = [i \in Instances |->
          IF i \in I
          THEN Finish(Receive(frame[i], response), start_spark_job_result(response))
          ELSE frame[i]]
    \* the service, having accepted the request, has a new job run
    /\ remote' = IF response.ok /\ "id" \in DOMAIN response.body
                 THEN "PENDING" ELSE remote
    /\ UNCHANGED <<self, prior>>

\* the cluster ID kept on the instance once resolved, and used by later calls
\* in place of a new resolution
start_spark_job_cached(I) ==
    \/ /\ CanCall(I)
       /\ \E a \in StartParameters :
            frame' = [i \in Instances |->
               IF i \in I
               THEN IF "virtual_cluster_id" \in DOMAIN self[i]
                    THEN Send(Invoke("start_spark_job", a),
                              start_spark_job_request(self[i], a,
                                                      self[i].virtual_cluster_id))
                    ELSE Send(Invoke("start_spark_job", a),
                              get_cluster_by_ns_request(self[i]))
               ELSE frame[i]]
       /\ UNCHANGED <<self, remote, prior>>
    \/ /\ Awaits(I, "start_spark_job", 0)
       /\ \A i \in I : frame[i].requests[1].api = "list_virtual_clusters"
       /\ \E r \in ListVirtualClustersResponses :
            /\ frame' = [i \in Instances |->
                 IF i \in I
                 THEN LET a == frame[i].args
                          id == get_cluster_by_ns_result(a.NAME_SPACE, r)
                          f == Receive(frame[i], r)
                      IN IF id.kind = "raise" THEN Finish(f, id)
                         ELSE Send(f, start_spark_job_request(self[i], a, id.value))
                 ELSE frame[i]]
            /\ self' = [i \in Instances |->
                 IF i \in I
                 THEN LET id == get_cluster_by_ns_result(frame[i].args.NAME_SPACE, r)
                      IN IF id.kind = "return" /\ id.type = "str"
                         THEN [client |-> self[i].client,
                               virtual_cluster_id |-> id.value]
                         ELSE self[i]
                 ELSE self[i]]
       /\ UNCHANGED <<remote, prior>>
    \/ /\ I # {}
       /\ OthersIdle(I)
       /\ \A i \in I : /\ frame[i].pc = "calling"
                       /\ frame[i].op = "start_spark_job"
                       /\ frame[i].requests[Len(frame[i].requests)].api = "start_job_run"
       /\ \E r \in StartJobRunResponses :
            /\ frame' = [i \in Instances |->
                 IF i \in I
                 THEN Finish(Receive(frame[i], r), start_spark_job_result(r))
                 ELSE frame[i]]
            /\ remote' = IF r.ok /\ "id" \in DOMAIN r.body THEN "PENDING" ELSE remote
       /\ UNCHANGED <<self, prior>>

start_spark_job(I) ==
    \/ /\ CanCall(I)
       /\ \E a \in StartParameters : start_spark_job_call(I, a)
    \/ /\ Awaits(I, "start_spark_job", 0)
       /\ \E r \in ListVirtualClustersResponses : start_spark_job_resolved(I, r)
    \/ /\ Awaits(I, "start_spark_job", 1)
       /\ \E r \in StartJobRunResponses : start_spark_job_return(I, r)

\* the caller takes the value or the exception; the frame is gone.  prior
\* records that an instance has completed an invocation on its own.
CallerResumes(I) ==
    /\ I # {}
    /\ OthersIdle(I)
    /\ \A i \in I : frame[i].pc = "done"
    /\ frame' = [i \in Instances |-> IF i \in I THEN Idle ELSE frame[i]]
    /\ prior' = (prior \/ I # Instances)
    /\ UNCHANGED <<self, remote>>

\* the remote service runs the job on its own
JobRunProgresses ==
    /\ \/ remote = "PENDING" /\ remote' = "SUBMITTED"
       \/ remote = "SUBMITTED" /\ remote' = "RUNNING"
       \/ remote = "RUNNING" /\ remote' \in {"COMPLETED", "FAILED"}
       \/ remote = "CANCEL_PENDING" /\ remote' = "CANCELLED"
    /\ UNCHANGED <<self, frame, prior>>

(***************************************************************************)
(* Specifications.                                                         *)
(***************************************************************************)
Init ==
    /\ self = [i \in Instances |->
                 EMRContainers(IF i = 1 THEN "us-east-1" ELSE "eu-west-2")]
    /\ frame = [i \in Instances |-> Idle]
    /\ remote = "NONE"
    /\ prior = FALSE

Operation(I) ==
    \/ list_clusters(I)
    \/ get_cluster_by_ns(I)
    \/ describe_job(I)
    \/ cancel_job(I)
    \/ list_jobs(I)
    \/ start_spark_job(I)
    \/ CallerResumes(I)

\* calls are made one at a time, on any instance
Next ==
    \/ \E i \in Instances : Operation({i})
    \/ JobRunProgresses

Spec == Init /\ [][Next]_vars

\* two instances side by side, constructed with the same region or not: a call is made on one instance, or on both with
\* the same arguments, both then being given the same answers
InitPair ==
    /\ \E r \in Regions :
         self = [i \in Instances |->
                   EMRContainers(IF i = 1 THEN "us-east-1" ELSE r)]
    /\ frame = [i \in Instances |-> Idle]
    /\ remote = "NONE"
    /\ prior = FALSE

NextPair ==
    \/ \E I \in (SUBSET Instances) \ {{}} : Operation(I)
    \/ JobRunProgresses

SpecPair == InitPair /\ [][NextPair]_vars

(***************************************************************************)
(* Properties, stated apart from the operators above.                      *)
(***************************************************************************)
\* the namespace attribute of a reported cluster; None where it carries none
NamespaceOf(vc) ==
    LET cp == vc.containerProvider
    IN IF /\ "info" \in DOMAIN cp
          /\ "eksInfo" \in DOMAIN cp.info
          /\ "namespace" \in DOMAIN cp.info.eksInfo
       THEN cp.info.eksInfo.namespace
       ELSE None

\* the places of the listing at which a cluster of namespace N stands
Matches(body, N) ==
    IF "virtualClusters" \in DOMAIN body
    THEN { k \in 1..Len(body.virtualClusters) :
             NamespaceOf(body.virtualClusters[k]) = N }
    ELSE {}

Min(S) == CHOOSE k \in S : \A m \in S : k <= m

Apis(requests) == [k \in 1..Len(requests) |-> requests[k].api]

IsPrefix(s, t) == Len(s) <= Len(t) /\ \A k \in 1..Len(s) : s[k] = t[k]

\* the value the resolver returned to the operation of frame f, whose first
\* answer is the listing
Resolved(f, N) == get_cluster_by_ns_result(N, f.responses[1])

\* C1: submit_job, for a namespace no cluster of the listing has, ends in a
\* failure and sends no start-job request.
C1_NoSubmitWithoutCluster ==
    \A i \in Instances :
      LET f == frame[i]
      IN (/\ f.op = "start_spark_job"
          /\ Len(f.responses) >= 1
          /\ f.responses[1].ok
          /\ Matches(f.responses[1].body, f.args.NAME_SPACE) = {})
         => /\ \A k \in 1..Len(f.requests) : f.requests[k].api # "start_job_run"
            /\ f.pc = "done"
            /\ f.result.kind = "raise"

\* C2: describe_job and cancel_job each send a request whose id is job_id and
\* whose virtualClusterId is cluster_id, and return the job run reported.
C2_ForwardsIdentifiers ==
    \A i \in Instances :
      LET f == frame[i]
      IN (f.op \in {"describe_job", "cancel_job"} /\ Len(f.requests) >= 1)
         => /\ Len(f.requests) = 1
            /\ f.requests[1].api =
                 (IF f.op = "describe_job" THEN "describe_job_run" ELSE "cancel_job_run")
            /\ DOMAIN f.requests[1].kwargs = {"id", "virtualClusterId"}
            /\ f.requests[1].kwargs.id = f.args.job_id
            /\ f.requests[1].kwargs.virtualClusterId = f.args.virtual_cluster_id
            /\ (/\ f.pc = "done"
                /\ f.responses[1].ok
                /\ "jobRun" \in DOMAIN f.responses[1].body)
               => f.result = [kind |-> "return", type |-> "dict",
                              value |-> f.responses[1].body.jobRun]

\* C3: get_cluster_by_ns, when no cluster of the listing has namespace N (an
\* empty listing, no cluster sequence, clusters without the attribute), returns
\* None and never raises.
C3_NotFoundNeverRaises ==
    \A i \in Instances :
      LET f == frame[i]
      IN (/\ f.op = "get_cluster_by_ns"
          /\ f.pc = "done"
          /\ f.responses[1].ok
          /\ Matches(f.responses[1].body, f.args.tenant_ns) = {})
         => f.result = [kind |-> "return", type |-> "NoneType", value |-> None]

\* C4: get_cluster_by_ns asks for the EKS clusters in state RUNNING and returns
\* the id of the first cluster of the listing whose namespace is N.
C4_FirstMatch ==
    \A i \in Instances :
      LET f == frame[i]
      IN (f.op = "get_cluster_by_ns" /\ Len(f.requests) >= 1)
         => /\ f.requests[1].api = "list_virtual_clusters"
            /\ f.requests[1].kwargs =
                 [containerProviderType |-> "EKS", states |-> <<"RUNNING">>]
            /\ (/\ f.pc = "done"
                /\ f.responses[1].ok
                /\ Matches(f.responses[1].body, f.args.tenant_ns) # {})
               => f.result =
                    [kind |-> "return", type |-> "str",
                     value |-> f.responses[1].body.virtualClusters[
                                 Min(Matches(f.responses[1].body, f.args.tenant_ns))].id]

\* a state in which the resolver has returned a cluster ID and the job is started
C5_Witness ==
    \E i \in Instances :
      LET f == frame[i]
      IN /\ f.op = "start_spark_job"
         /\ f.pc = "done"
         /\ f.args.Arguments # <<>>
         /\ Len(f.requests) = 2
         /\ f.requests[2].kwargs.virtualClusterId = "vc2"
         /\ f.result = [kind |-> "return", type |-> "str", value |-> "j2"]

\* C5: submit_job, once the resolver has returned a cluster ID, sends exactly
\* one start-job request, with that cluster ID, the entry point and arguments
\* supplied and the submit parameters (jars, executor memory, executor cores,
\* driver cores, in that order), and returns the job id the service reports.
C5_SubmitRequest ==
    \A i \in Instances :
      LET f == frame[i]
          a == f.args
      IN (/\ f.op = "start_spark_job"
          /\ Len(f.responses) >= 1
          /\ Resolved(f, a.NAME_SPACE).kind = "return"
          /\ Resolved(f, a.NAME_SPACE).type = "str")
         => /\ Apis(f.requests) = <<"list_virtual_clusters", "start_job_run">>
            /\ LET kw == f.requests[2].kwargs
                   driver == kw.jobDriver.sparkSubmitJobDriver
               IN /\ kw.virtualClusterId = Resolved(f, a.NAME_SPACE).value
                  /\ kw.virtualClusterId # None
                  /\ driver.entryPoint = a.EntryPoint
                  /\ driver.entryPointArguments = a.Arguments
                  /\ driver.sparkSubmitParameters =
                       <<"--jars ", a.JARS,
                         " --conf spark.executor.memory=", a.Executor_memory,
                         " --conf spark.executor.cores=", a.Executor_cores,
                         " --conf spark.driver.cores=", a.Driver_cores>>
            /\ f.pc = "done" => Len(f.responses) = 2
            /\ (/\ f.pc = "done"
                /\ f.responses[2].ok
                /\ "id" \in DOMAIN f.responses[2].body)
               => f.result = [kind |-> "return", type |-> "str",
                              value |-> f.responses[2].body.id]

\* a state in which submit_job's start-job call has failed after a resolution
C6_Witness ==
    \E i \in Instances :
      LET f == frame[i]
      IN /\ f.op = "start_spark_job"
         /\ Len(f.responses) = 2
         /\ f.responses[1].ok
         /\ ~f.responses[2].ok
         /\ f.result.kind = "raise"

\* C6: a failed remote call ends the operation in that failure: it is the last
\* answer the operation takes, no request follows it, and the operation raises
\* it; an operation that returns a value has had no call fail.
C6_FailurePropagates ==
    \A i \in Instances :
      LET f == frame[i]
      IN /\ \A k \in 1..Len(f.responses) :
              ~f.responses[k].ok
              => /\ k = Len(f.responses)
                 /\ Len(f.requests) = k
                 /\ f.pc = "done"
                 /\ f.result = [kind |-> "raise", type |-> f.responses[k].error,
                                value |-> None]
         /\ f.result.kind = "return"
            => \A k \in 1..Len(f.responses) : f.responses[k].ok

\* a state in which list_jobs has returned a page of two that came with a
\* continuation token
C7_Witness ==
    \E i \in Instances :
      LET f == frame[i]
      IN /\ f.op = "list_jobs"
         /\ f.pc = "done"
         /\ Len(f.responses) = 2
         /\ f.responses[2].ok
         /\ "nextToken" \in DOMAIN f.responses[2].body
         /\ "jobRuns" \in DOMAIN f.responses[2].body
         /\ Len(f.responses[2].body.jobRuns) >= 2
         /\ f.result.type = "list"
         /\ f.requests[2].kwargs.virtualClusterId = "vc3"

\* C7: list_clusters and list_jobs each send one listing request, with the
\* states (and provider type; window and resolved cluster ID) supplied and no
\* continuation token, and return the page the service reports as it is.
C7_ListRequests ==
    \A i \in Instances :
      LET f == frame[i]
          a == f.args
          last == f.responses[Len(f.responses)]
      IN /\ (f.op = "list_clusters" /\ Len(f.requests) >= 1)
            => /\ Len(f.requests) = 1
               /\ f.requests[1].api = "list_virtual_clusters"
               /\ f.requests[1].kwargs =
                    [containerProviderType |-> a.container_provider_type,
                     states |-> a.states]
               /\ (f.pc = "done" /\ last.ok /\ "virtualClusters" \in DOMAIN last.body)
                  => f.result = [kind |-> "return", type |-> "list",
                                 value |-> last.body.virtualClusters]
         /\ (f.op = "list_jobs" /\ Len(f.requests) >= 2)
            => /\ Len(f.requests) = 2
               /\ f.requests[2].api = "list_job_runs"
               /\ f.requests[2].kwargs =
                    [virtualClusterId |-> Resolved(f, a.NAME_SPACE).value,
                     createdBefore |-> a.created_before,
                     createdAfter |-> a.created_after,
                     states |-> a.states]
               /\ (/\ f.pc = "done"
                   /\ Len(f.responses) = 2
                   /\ last.ok
                   /\ "jobRuns" \in DOMAIN last.body)
                  => f.result = [kind |-> "return", type |-> "list",
                                 value |-> last.body.jobRuns]

\* the remote calls of an operation that runs to its end
CallsOf(op) ==
    CASE op = "describe_job" -> <<"describe_job_run">>
      [] op = "cancel_job" -> <<"cancel_job_run">>
      [] op = "list_clusters" -> <<"list_virtual_clusters">>
      [] op = "get_cluster_by_ns" -> <<"list_virtual_clusters">>
      [] op = "start_spark_job" -> <<"list_virtual_clusters", "start_job_run">>
      [] op = "list_jobs" -> <<"list_virtual_clusters", "list_job_runs">>
      [] OTHER -> <<>>

\* C8 as stated: every operation other than submit_job issues exactly one
\* remote call and returns; submit_job issues a list-clusters call and then a
\* start-job call.
C8_OneCallExceptSubmit ==
    \A i \in Instances :
      LET f == frame[i]
      IN (f.pc = "done" /\ f.result.kind = "return")
         => IF f.op = "start_spark_job"
            THEN Apis(f.requests) = <<"list_virtual_clusters", "start_job_run">>
            ELSE Len(f.requests) = 1

\* a state in which list_jobs has returned after its two calls
C8_Witness ==
    \E i \in Instances :
      LET f == frame[i]
      IN /\ f.op = "list_jobs"
         /\ f.pc = "done"
         /\ f.result.kind = "return"
         /\ Apis(f.requests) = <<"list_virtual_clusters", "list_job_runs">>

\* C8, amended: describe_job, cancel_job and list_clusters issue exactly one
\* remote call; submit_job and list_jobs issue a list-clusters call and then
\* one start-job call, one list-job-runs call; an operation whose resolution
\* raises ends after the first call.
C8_CallsPerOperation ==
    \A i \in Instances :
      LET f == frame[i]
      IN /\ IsPrefix(Apis(f.requests), CallsOf(f.op))
         /\ f.pc # "idle" => Len(f.requests) >= 1
         /\ f.pc = "calling" => Len(f.requests) = Len(f.responses) + 1
         /\ f.pc = "done" => Len(f.requests) = Len(f.responses)
         /\ (f.pc = "done" /\ f.result.kind = "return")
            => Apis(f.requests) = CallsOf(f.op)
         /\ (f.pc = "done" /\ Len(f.requests) < Len(CallsOf(f.op)))
            => f.result.kind = "raise"

C10_Witness ==
    /\ prior
    /\ self[1].client = self[2].client
    /\ frame[1].op = "start_spark_job"
    /\ frame[2].op = "start_spark_job"
    /\ frame[1].args = frame[2].args
    /\ frame[1].responses = frame[2].responses
    /\ Len(frame[1].requests) = 2
    /\ Len(frame[2].requests) = 2

\* C10: instances of the same region, in the same operation with the same
\* arguments and the same answers so far, have sent the same requests; an
\* instance holds nothing but its client, and an operation that resolves a
\* namespace asks the service first, whatever went before.
C10_SameRequests ==
    /\ \A i, j \in Instances :
         (/\ self[i].client = self[j].client
          /\ frame[i].op # "none"
          /\ frame[i].op = frame[j].op
          /\ frame[i].args = frame[j].args
          /\ frame[i].responses = frame[j].responses)
         => frame[i].requests = frame[j].requests
    /\ \A i \in Instances :
         /\ DOMAIN self[i] = {"client"}
         /\ frame[i].op \in {"start_spark_job", "list_jobs", "get_cluster_by_ns"}
            => /\ frame[i].requests[1].api = "list_virtual_clusters"
               /\ frame[i].requests[1].client = self[i].client

====
